---- MODULE Spec2Model ----
(***************************************************************************)
(* Model of the Turkish syllable crawler (src/turkish_hyphenation.py):     *)
(* the syllable inventory, the segmentation scan, the SQLite store with    *)
(* its transaction boundaries, and the crawl loop of ContinuousCrawler.    *)
(*                                                                         *)
(* Characters are strings.  TLA+ strings are ASCII, so the Turkish letters *)
(* are written by name: "i_dotless" is U+0131, "I_dotted" is U+0130,       *)
(* "o_uml" is U+00F6, "u_uml" is U+00FC, "c_ced" is U+00E7, "g_breve" is   *)
(* U+011F, "s_ced" is U+015F and "dot_above" is the combining U+0307.      *)
(* A word is a sequence of characters.                                     *)
(***************************************************************************)
EXTENDS Integers, Sequences, FiniteSets, TLC

\* ------------------------------------------------------------------ bounds
\* how many letters of each alphabet the model uses (a prefix of the lists)
NumVowels == 2
NumConsonants == 3
\* how many uppercase letters may occur in a token
NumUpper == 1
\* longest token given to syllabify_word in SpecSeg
MaxWordLen == 4

\* --------------------------------------------------------------- alphabets
AllVowels == <<"a", "e", "i_dotless", "i", "o", "o_uml", "u", "u_uml">>

AllConsonants ==
  <<"b", "c", "c_ced", "d", "f", "g", "g_breve", "h", "j", "k", "l", "m",
    "n", "p", "r", "s", "s_ced", "t", "v", "y", "z">>

VOWELS == SubSeq(AllVowels, 1, NumVowels)

CONSONANTS == SubSeq(AllConsonants, 1, NumConsonants)

\* uppercase letters matched by the token pattern, and what str.lower()
\* makes of each (U+0130 lowers to two code points: "i" and U+0307)
AllUpper == <<"A", "B", "I_dotted", "E", "C", "I">>

UpperChars == {AllUpper[k] : k \in 1..NumUpper}

LowerChar(c) ==
  CASE c = "A" -> <<"a">>
    [] c = "B" -> <<"b">>
    [] c = "E" -> <<"e">>
    [] c = "C" -> <<"c">>
    [] c = "I" -> <<"i">>
    [] c = "I_dotted" -> <<"i", "dot_above">>
    [] OTHER -> <<c>>

RECURSIVE Lower(_)
Lower(w) == IF w = <<>> THEN <<>> ELSE LowerChar(Head(w)) \o Lower(Tail(w))

IsUpper(c) == c \in {AllUpper[k] : k \in 1..Len(AllUpper)}

Range(s) == {s[k] : k \in 1..Len(s)}

\* --------------------------------------------------------------- inventory
\* itertools.product(X, Y): the last component varies fastest
Product2(X, Y) ==
  [k \in 1..(Len(X) * Len(Y)) |->
     <<X[((k - 1) \div Len(Y)) + 1], Y[((k - 1) % Len(Y)) + 1]>>]

Product3(X, Y, Z) ==
  [k \in 1..(Len(X) * Len(Y) * Len(Z)) |->
     <<X[((k - 1) \div (Len(Y) * Len(Z))) + 1],
       Y[(((k - 1) \div Len(Z)) % Len(Y)) + 1],
       Z[((k - 1) % Len(Z)) + 1]>>]

Product4(X, Y, Z, W) ==
  [k \in 1..(Len(X) * Len(Y) * Len(Z) * Len(W)) |->
     <<X[((k - 1) \div (Len(Y) * Len(Z) * Len(W))) + 1],
       Y[(((k - 1) \div (Len(Z) * Len(W))) % Len(Y)) + 1],
       Z[(((k - 1) \div Len(W)) % Len(Z)) + 1],
       W[((k - 1) % Len(W)) + 1]>>]

\* the mutated pattern 1: every letter alone, the consonants too
v_syllablesAnyLetter ==
  [k \in 1..(Len(VOWELS) + Len(CONSONANTS)) |->
     IF k <= Len(VOWELS) THEN <<VOWELS[k]>> ELSE <<CONSONANTS[k - Len(VOWELS)]>>]

v_syllables == [k \in 1..Len(VOWELS) |-> <<VOWELS[k]>>]

vc_syllables == Product2(VOWELS, CONSONANTS)

\* the mutated pattern 3: the vowel first, as in pattern 2
cv_syllablesAsVC == Product2(VOWELS, CONSONANTS)

cv_syllables == Product2(CONSONANTS, VOWELS)

cvc_syllables == Product3(CONSONANTS, VOWELS, CONSONANTS)

cvcc_syllables == Product4(CONSONANTS, VOWELS, CONSONANTS, CONSONANTS)

generate_all_syllables ==
  v_syllables \o vc_syllables \o cv_syllables \o cvc_syllables \o cvcc_syllables

all_syllables_set == Range(generate_all_syllables)

\* ------------------------------------------------------------ segmentation
\* Python's None is <<>> and a value x is <<x>>
None == <<>>

Some(x) == <<x>>

Max(a, b) == IF a >= b THEN a ELSE b

Min(a, b) == IF a <= b THEN a ELSE b

\* the longest slice the inner loop of syllabify_word looks at
MaxSyllableLen == 4

\* the mutated inner loop: dp[i] = [syllable], the syllables before it lost
RECURSIVE ScanFromDropPrefix(_, _, _, _, _)
ScanFromDropPrefix(word, S, dp, i, j) ==
  IF j >= i THEN None
  ELSE IF SubSeq(word, j + 1, i) \in S /\ dp[j + 1] # None
       THEN Some(<<SubSeq(word, j + 1, i)>>)
       ELSE ScanFromDropPrefix(word, S, dp, i, j + 1)

\* the mutated inner loop: j runs downward from i - 1, the shortest slice
\* that has dp[j] set and is in the inventory wins
ScanFromShortestFirst(word, S, dp, i, j) ==
  LET js == {x \in j..(i - 1) : SubSeq(word, x + 1, i) \in S /\ dp[x + 1] # None}
  IN IF js = {} THEN None
     ELSE LET m == CHOOSE x \in js : \A y \in js : y <= x
          IN Some(Append(dp[m + 1][1], SubSeq(word, m + 1, i)))

\* the inner loop: j runs upward from max(0, i - 4), the first j that has
\* dp[j] set and word[j:i] in the inventory wins (dp[j] is dp[j + 1] here)
RECURSIVE ScanFrom(_, _, _, _, _)
ScanFrom(word, S, dp, i, j) ==
  IF j >= i THEN None
  ELSE IF SubSeq(word, j + 1, i) \in S /\ dp[j + 1] # None
       THEN Some(Append(dp[j + 1][1], SubSeq(word, j + 1, i)))
       ELSE ScanFrom(word, S, dp, i, j + 1)

\* the mutated window: range(max(0, i - 3), i), one slice short
DpEntryShortWindow(word, S, dp, i) ==
  ScanFrom(word, S, dp, i, Max(0, i - (MaxSyllableLen - 1)))

\* range(max(0, i - 4), i)
DpEntry(word, S, dp, i) == ScanFrom(word, S, dp, i, Max(0, i - MaxSyllableLen))

\* the outer loop: dp grows from <<dp[0]>> to <<dp[0], ..., dp[n]>>
RECURSIVE DpTable(_, _, _)
DpTable(word, S, dp) ==
  IF Len(dp) > Len(word) THEN dp
  ELSE DpTable(word, S, Append(dp, DpEntry(word, S, dp, Len(dp))))

\* the mutated return: the decomposition of the longest reachable prefix
syllabify_wordPartial(word0, S) ==
  LET word == Lower(word0)
      dp == DpTable(word, S, <<Some(<<>>)>>)
      ks == {k \in 0..Len(word) : dp[k + 1] # None}
  IN dp[(CHOOSE k \in ks : \A y \in ks : y <= k) + 1]

\* dp[n] if dp[n] is not None else None
syllabify_word(word0, S) ==
  LET word == Lower(word0)
      dp == DpTable(word, S, <<Some(<<>>)>>)
  IN dp[Len(word) + 1]

\* ------------------------------------------------------------------ tokens
\* the characters matched by [a-zA-Z...]+ : the Turkish letters, the other
\* Latin letters and the uppercase letters
OtherLatin == {"q", "w", "x"}

IsLetter(c) ==
  c \in Range(AllVowels) \cup Range(AllConsonants) \cup OtherLatin \cup Range(AllUpper)

\* re.findall: the maximal runs of letters of text, left to right; cur is
\* the run being read
RECURSIVE FindAll(_, _)
FindAll(text, cur) ==
  IF text = <<>> THEN (IF cur = <<>> THEN <<>> ELSE <<cur>>)
  ELSE IF IsLetter(Head(text)) THEN FindAll(Tail(text), Append(cur, Head(text)))
  ELSE (IF cur = <<>> THEN <<>> ELSE <<cur>>) \o FindAll(Tail(text), <<>>)

extract_words(text, preserve_case) ==
  LET runs == FindAll(text, <<>>)
      kept == SelectSeq(runs, LAMBDA w : Len(w) > 1)
  IN IF preserve_case THEN kept ELSE [k \in 1..Len(kept) |-> Lower(kept[k])]

_extract_monographs(word) == [k \in 1..Len(word) |-> <<word[k]>>]

\* the mutated digraphs: the pairs at positions 1-2, 3-4, ... only
_extract_digraphsAligned(word) ==
  [k \in 1..(Len(word) \div 2) |-> SubSeq(word, 2 * k - 1, 2 * k)]

_extract_digraphs(word) ==
  [k \in 1..Max(0, Len(word) - 1) |-> SubSeq(word, k, k + 1)]

_extract_trigraphs(word) ==
  [k \in 1..Max(0, Len(word) - 2) |-> SubSeq(word, k, k + 2)]

\* ------------------------------------------------------------------- store
\* The database as one record.  syllables, monographs, digraphs, trigraphs
\* map a key to its row; visited_urls maps a url to crawled_at; url_queue
\* is the set of rows [id, url]; seq is the AUTOINCREMENT counter of
\* url_queue (sqlite_sequence).  h_order, h_log and h_segmented are history
\* fields that no statement reads: the urls of url_queue in the order their
\* rows were inserted, the upsert calls and the inserts into words made, in
\* order, and the lowercased tokens process_text has segmented.  They are part of the transaction, so
\* a rollback takes them back with the rows.
EmptyTable == [k \in {} |-> [frequency |-> 0, last_word |-> <<>>, last_url |-> ""]]

EmptyVisited == [u \in {} |-> 0]

_init_database ==
  [syllables |-> EmptyTable, monographs |-> EmptyTable,
   digraphs |-> EmptyTable, trigraphs |-> EmptyTable,
   words |-> {}, visited_urls |-> EmptyVisited,
   url_queue |-> {}, seq |-> 0,
   h_order |-> <<>>, h_log |-> <<>>, h_segmented |-> {}]

Kinds == {"syllables", "monographs", "digraphs", "trigraphs"}

QueueUrls(d) == {r.url : r \in d.url_queue}

Visited(d) == DOMAIN d.visited_urls

\* the mutated lookup: no url counts as visited
_is_url_visitedNever(d, u) == FALSE

_is_url_visited(d, u) == u \in DOMAIN d.visited_urls

\* the mutated insert: INSERT OR REPLACE, which takes the new crawled_at
InsertVisitedReplace(d, u, now) ==
  [d EXCEPT !.visited_urls =
     [x \in DOMAIN d.visited_urls \cup {u} |->
        IF x = u THEN now ELSE d.visited_urls[x]]]

\* INSERT OR IGNORE INTO visited_urls (url, crawled_at)
InsertVisited(d, u, now) ==
  IF u \in DOMAIN d.visited_urls THEN d
  ELSE [d EXCEPT !.visited_urls =
          [x \in DOMAIN d.visited_urls \cup {u} |->
             IF x = u THEN now ELSE d.visited_urls[x]]]

\* INSERT OR IGNORE INTO url_queue (url): ignored when the UNIQUE url column
\* already holds u; otherwise the row gets the next AUTOINCREMENT id
InsertQueue(d, u) ==
  IF u \in QueueUrls(d) THEN d
  ELSE [d EXCEPT !.url_queue = @ \cup {[id |-> d.seq + 1, url |-> u]},
                 !.seq = @ + 1,
                 !.h_order = Append(@, u)]

\* SELECT id, url FROM url_queue ORDER BY id DESC LIMIT 1 (the mutated query)
LastRow(d) == CHOOSE r \in d.url_queue : \A q \in d.url_queue : q.id <= r.id

\* SELECT id, url FROM url_queue ORDER BY id LIMIT 1
FirstRow(d) == CHOOSE r \in d.url_queue : \A q \in d.url_queue : r.id <= q.id

RemoveFirst(s, u) ==
  LET k == CHOOSE i \in 1..Len(s) : s[i] = u /\ \A j \in 1..(i - 1) : s[j] # u
  IN SubSeq(s, 1, k - 1) \o SubSeq(s, k + 1, Len(s))

\* DELETE FROM url_queue WHERE id = ?
DeleteRow(d, r) ==
  [d EXCEPT !.url_queue = @ \ {r}, !.h_order = RemoveFirst(@, r.url)]

\* the mutated upsert: INSERT OR REPLACE, which resets the row
UpsertRowReplace(t, key, word, u) ==
  [k \in DOMAIN t \cup {key} |->
     IF k = key THEN [frequency |-> 1, last_word |-> word, last_url |-> u]
     ELSE t[k]]

\* INSERT ... VALUES (?, 1, ?, ?) ON CONFLICT(key) DO UPDATE SET
\* frequency = frequency + 1, last_word = excluded.last_word, ...
UpsertRow(t, key, word, u) ==
  [k \in DOMAIN t \cup {key} |->
     IF k = key
     THEN [frequency |-> IF key \in DOMAIN t THEN t[key].frequency + 1 ELSE 1,
           last_word |-> word, last_url |-> u]
     ELSE t[k]]

Logged(d, kind, key, word, u) ==
  Append(d.h_log, [kind |-> kind, key |-> key, word |-> word, url |-> u])

_update_syllable(d, key, word, u) ==
  [d EXCEPT !.syllables = UpsertRow(@, key, word, u),
            !.h_log = Logged(d, "syllables", key, word, u)]

_update_monograph(d, key, word, u) ==
  [d EXCEPT !.monographs = UpsertRow(@, key, word, u),
            !.h_log = Logged(d, "monographs", key, word, u)]

_update_digraph(d, key, word, u) ==
  [d EXCEPT !.digraphs = UpsertRow(@, key, word, u),
            !.h_log = Logged(d, "digraphs", key, word, u)]

_update_trigraph(d, key, word, u) ==
  [d EXCEPT !.trigraphs = UpsertRow(@, key, word, u),
            !.h_log = Logged(d, "trigraphs", key, word, u)]

\* the mutated insert: the word is not stored
InsertWordSkip(d, word) == d

\* INSERT OR IGNORE INTO words (word)
InsertWord(d, word) == [d EXCEPT !.words = @ \cup {word}]

\* the mutated word_lower: the token as it was read
word_lowerKeepCase(w) == w

\* word_lower = word.lower()
word_lower(w) == Lower(w)

\* `if syllables:` is false for None and for the empty list
Truthy(r) == r # None /\ r[1] # <<>>

\* --------------------------------------------------------------------- web
\* The pages the transport can return.  A url is a string; what urlparse
\* and is_turkish_domain read from it is given per url.
U1 == "https://tr.wikipedia.org/a"

U2 == "https://tr.wikipedia.org/b"

U3 == "https://example.com/tr/c"

U4 == "https://example.com/b"

M1 == "mailto:x@tr.wikipedia.org"

F1 == "https://example.org/d"

\* the article pages a long index page links to
PagedUrls ==
  <<
    "https://tr.wikipedia.org/p01", "https://tr.wikipedia.org/p02",
    "https://tr.wikipedia.org/p03", "https://tr.wikipedia.org/p04",
    "https://tr.wikipedia.org/p05", "https://tr.wikipedia.org/p06",
    "https://tr.wikipedia.org/p07", "https://tr.wikipedia.org/p08",
    "https://tr.wikipedia.org/p09", "https://tr.wikipedia.org/p10",
    "https://tr.wikipedia.org/p11", "https://tr.wikipedia.org/p12",
    "https://tr.wikipedia.org/p13", "https://tr.wikipedia.org/p14",
    "https://tr.wikipedia.org/p15", "https://tr.wikipedia.org/p16",
    "https://tr.wikipedia.org/p17", "https://tr.wikipedia.org/p18",
    "https://tr.wikipedia.org/p19", "https://tr.wikipedia.org/p20",
    "https://tr.wikipedia.org/p21", "https://tr.wikipedia.org/p22",
    "https://tr.wikipedia.org/p23", "https://tr.wikipedia.org/p24",
    "https://tr.wikipedia.org/p25", "https://tr.wikipedia.org/p26",
    "https://tr.wikipedia.org/p27", "https://tr.wikipedia.org/p28",
    "https://tr.wikipedia.org/p29", "https://tr.wikipedia.org/p30",
    "https://tr.wikipedia.org/p31", "https://tr.wikipedia.org/p32",
    "https://tr.wikipedia.org/p33", "https://tr.wikipedia.org/p34",
    "https://tr.wikipedia.org/p35", "https://tr.wikipedia.org/p36",
    "https://tr.wikipedia.org/p37", "https://tr.wikipedia.org/p38",
    "https://tr.wikipedia.org/p39", "https://tr.wikipedia.org/p40",
    "https://tr.wikipedia.org/p41", "https://tr.wikipedia.org/p42",
    "https://tr.wikipedia.org/p43", "https://tr.wikipedia.org/p44",
    "https://tr.wikipedia.org/p45", "https://tr.wikipedia.org/p46",
    "https://tr.wikipedia.org/p47", "https://tr.wikipedia.org/p48",
    "https://tr.wikipedia.org/p49", "https://tr.wikipedia.org/p50",
    "https://tr.wikipedia.org/p51", "https://tr.wikipedia.org/p52",
    "https://tr.wikipedia.org/p53", "https://tr.wikipedia.org/p54",
    "https://tr.wikipedia.org/p55", "https://tr.wikipedia.org/p56"
  >>

AllUrls == {U1, U2, U3, U4, M1, F1} \cup {PagedUrls[k] : k \in 1..Len(PagedUrls)}

\* urlparse(url).scheme
Scheme(u) == IF u = M1 THEN "mailto" ELSE "https"

\* urlparse(url).netloc
Netloc(u) ==
  CASE u \in AllUrls \ {U3, U4, M1, F1} -> "tr.wikipedia.org"
    [] u \in {U3, U4} -> "example.com"
    [] u = F1 -> "example.org"
    [] OTHER -> ""

\* any(pattern in url_lower for pattern in turkish_patterns)
is_turkish_domain(u) == u \in AllUrls \ {U4, F1}

\* the href attributes of the page at u, in document order
Hrefs(u) ==
  CASE u = U1 -> <<"/a", "/b", M1, "/b", U3>>
    [] u = U2 -> <<"/a", F1, U3>>
    [] u = U3 -> <<U1, "/b">>
    [] OTHER -> <<>>

\* urljoin(base_url, href): an absolute href stands, a path is resolved
\* against the scheme and host of the page
urljoin(base, href) ==
  CASE href \in AllUrls -> href
    [] href = "/a" /\ Netloc(base) = "tr.wikipedia.org" -> U1
    [] href = "/b" /\ Netloc(base) = "tr.wikipedia.org" -> U2
    [] href = "/b" /\ Netloc(base) = "example.com" -> U4
    [] OTHER -> base

\* the visible text of the page at u
PageText(u) ==
  CASE u = U1 -> <<"A", "b", "a", " ", "a", "b", " ", "b", "A", " ", "e">>
    [] u = U2 -> <<"a", "b", " ", "a", "b", "b", "1", "e", "b", "e">>
    [] OTHER -> <<>>

\* links[:50]
MaxLinksPerPage == 50

\* the mutated extract_links: return links, without the slice
extract_linksNoCap(d, hrefs, base_url) ==
  LET abs == [k \in 1..Len(hrefs) |-> urljoin(base_url, hrefs[k])]
      keep(a) == /\ (Netloc(a) = Netloc(base_url) \/ is_turkish_domain(a))
                 /\ Scheme(a) \in {"http", "https"}
                 /\ ~_is_url_visited(d, a)
  IN SelectSeq(abs, keep)

extract_links(d, hrefs, base_url) ==
  LET abs == [k \in 1..Len(hrefs) |-> urljoin(base_url, hrefs[k])]
      keep(a) == /\ (Netloc(a) = Netloc(base_url) \/ is_turkish_domain(a))
                 /\ Scheme(a) \in {"http", "https"}
                 /\ ~_is_url_visited(d, a)
      links == SelectSeq(abs, keep)
  IN SubSeq(links, 1, Min(Len(links), MaxLinksPerPage))

\* the mutated crawl_page: the text is returned although the try block raised
crawl_pageKeepText(d, u, ok) ==
  [text |-> PageText(u),
   links |-> IF ok THEN extract_links(d, Hrefs(u), u) ELSE <<>>]

\* crawl_page: (text, links), or ("", []) when the request or the parse raised
crawl_page(d, u, ok) ==
  IF ok THEN [text |-> PageText(u), links |-> extract_links(d, Hrefs(u), u)]
  ELSE [text |-> <<>>, links |-> <<>>]

\* the statements process_text issues for one word after its INSERT INTO words
Statements(w, syllables) ==
  [k \in 1..Len(syllables) |-> [kind |-> "syllables", key |-> syllables[k]]]
  \o [k \in 1..Len(_extract_monographs(w)) |->
        [kind |-> "monographs", key |-> _extract_monographs(w)[k]]]
  \o [k \in 1..Len(_extract_digraphs(w)) |->
        [kind |-> "digraphs", key |-> _extract_digraphs(w)[k]]]
  \o [k \in 1..Len(_extract_trigraphs(w)) |->
        [kind |-> "trigraphs", key |-> _extract_trigraphs(w)[k]]]

ApplyStmt(d, st, w, u) ==
  CASE st.kind = "syllables" -> _update_syllable(d, st.key, w, u)
    [] st.kind = "monographs" -> _update_monograph(d, st.key, w, u)
    [] st.kind = "digraphs" -> _update_digraph(d, st.key, w, u)
    [] OTHER -> _update_trigraph(d, st.key, w, u)

\* _add_urls_to_queue as a whole: the inserts in list order
RECURSIVE _add_urls_to_queue(_, _)
_add_urls_to_queue(d, urls) ==
  IF urls = <<>> THEN d
  ELSE _add_urls_to_queue(InsertQueue(d, Head(urls)), Tail(urls))

RECURSIVE ApplyStmts(_, _, _, _)
ApplyStmts(d, stmts, w, u) ==
  IF stmts = <<>> THEN d
  ELSE ApplyStmts(ApplyStmt(d, Head(stmts), w, u), Tail(stmts), w, u)

\* `for word in unique_words` takes the set in some order
RECURSIVE SetToSeq(_)
SetToSeq(S) ==
  IF S = {} THEN <<>>
  ELSE LET x == CHOOSE y \in S : TRUE IN <<x>> \o SetToSeq(S \ {x})

\* process_text as a whole, the tokens taken in the order of ws
RECURSIVE ProcessWords(_, _, _)
ProcessWords(d, ws, u) ==
  IF ws = <<>> THEN d
  ELSE LET w == Head(ws)
           counted == /\ ~IsUpper(w[1])
                      /\ Truthy(syllabify_word(word_lower(w), all_syllables_set))
           d1 == [InsertWord(d, word_lower(w)) EXCEPT
                    !.h_segmented = @ \cup {Lower(w)},
                    !.h_log = Logged(d, "words", word_lower(w), word_lower(w), u)]
           sy == syllabify_word(word_lower(w), all_syllables_set)[1]
       IN ProcessWords(
            IF counted
            THEN ApplyStmts(d1, Statements(word_lower(w), sy), word_lower(w), u)
            ELSE d,
            Tail(ws), u)

process_text(d, t, u) ==
  ProcessWords(d, SetToSeq(Range(extract_words(t, TRUE))), u)

\* ------------------------------------------------------------------- state
VARIABLES
  db,                  \* the store as the open connection sees it
  durable,             \* the store as committed to the file
  clock,               \* datetime.now()
  pc,                  \* where crawl_continuous stands
  url, text, links,    \* the page in flight
  pending,             \* the urls _add_urls_to_queue has still to insert
  todo,                \* the tokens process_text has still to visit
  cur,                 \* word_lower of the token being counted
  ops,                 \* the upserts still to issue for cur
  pages_this_session,
  max_pages,
  interrupt_at,        \* "none", or the pc at which KeyboardInterrupt was raised
  sessions,            \* runs of crawl_continuous started so far
  crashes,             \* abrupt process exits so far
  pre,                 \* history: the store when the page in flight was dequeued
  segWord, segResult,  \* SpecSeg: the argument and the result of syllabify_word
  apiOp,               \* SpecStore: the store method called last
  call_log,            \* history: the calls of crawl_page, _mark_url_visited,
                       \* process_text and time.sleep made by
                       \* crawl_continuous, in order
  store_errors         \* history: the sqlite3 errors raised, in order

vars ==
  <<db, durable, clock, pc, url, text, links, pending, todo, cur, ops,
    pages_this_session, max_pages, interrupt_at, sessions, crashes, pre,
    segWord, segResult, apiOp, call_log, store_errors>>

\* bounds of the crawl
MaxSessions == 2
MaxCrashes == 1
MaxBudget == 1
\* how many statements of the store may raise sqlite3.Error
MaxStoreErrors == 1

\* the seed lists main() may pass
SeedLists == {<<U1>>}

segVars == <<segWord, segResult>>

pageVars == <<url, text, links, pending, todo, cur, ops>>

\* the store after _init_database on a new file
StoreInit ==
  /\ db = _init_database
  /\ durable = _init_database
  /\ clock = 1
  /\ pre = _init_database

\* no run of crawl_continuous has started
LoopInit ==
  /\ url = ""
  /\ text = <<>>
  /\ links = <<>>
  /\ pending = <<>>
  /\ todo = {}
  /\ cur = <<>>
  /\ ops = <<>>
  /\ pages_this_session = 0
  /\ max_pages = 0
  /\ interrupt_at = "none"
  /\ sessions = 0
  /\ crashes = 0
  /\ call_log = <<>>
  /\ store_errors = <<>>

NoApiOp == [name |-> "none", arg |-> <<>>, n |-> 0]

Init ==
  /\ StoreInit
  /\ LoopInit
  /\ pc = "init"
  /\ segWord = <<>>
  /\ segResult = None
  /\ apiOp = NoApiOp

\* ContinuousCrawler(...) then crawl_continuous(seed_urls, max_pages): the
\* connection opens on the committed file
StartSession(seeds, mp) ==
  /\ pc \in {"init", "terminated", "crashed"}
  /\ sessions < MaxSessions
  /\ sessions' = sessions + 1
  /\ db' = durable
  /\ pending' = seeds
  /\ max_pages' = mp
  /\ pages_this_session' = 0
  /\ interrupt_at' = "none"
  /\ url' = ""
  /\ text' = <<>>
  /\ links' = <<>>
  /\ todo' = {}
  /\ cur' = <<>>
  /\ ops' = <<>>
  /\ pre' = durable
  /\ pc' = "seed"
  /\ UNCHANGED <<durable, clock, crashes, segVars, apiOp, call_log, store_errors>>

\* _add_urls_to_queue, one INSERT OR IGNORE per url
AddUrlInsert ==
  /\ pc \in {"seed", "enqueue"}
  /\ pending # <<>>
  /\ db' = InsertQueue(db, Head(pending))
  /\ pending' = Tail(pending)
  /\ UNCHANGED <<durable, clock, pc, url, text, links, todo, cur, ops,
                 pages_this_session, max_pages, interrupt_at, sessions,
                 crashes, pre, segVars, apiOp, call_log, store_errors>>

\* an entry of store_errors: the session and the pc of the failed statement
Raised(at, session) == [at |-> at, session |-> session]

\* _add_urls_to_queue: cursor.execute raises, `except: pass` drops the
\* exception and the loop goes on to the next url
AddUrlInsertError ==
  /\ pc \in {"seed", "enqueue"}
  /\ pending # <<>>
  /\ Len(store_errors) < MaxStoreErrors
  /\ store_errors' = Append(store_errors, Raised(pc, sessions))
  /\ pending' = Tail(pending)
  /\ UNCHANGED <<db, durable, clock, pc, url, text, links, todo, cur, ops,
                 pages_this_session, max_pages, interrupt_at, sessions,
                 crashes, pre, segVars, apiOp, call_log>>

\* _add_urls_to_queue: self.conn.commit()
AddUrlsCommit ==
  /\ pc \in {"seed", "enqueue"}
  /\ pending = <<>>
  /\ durable' = db
  /\ pc' = IF pc = "seed" THEN "loop" ELSE "sleep"
  /\ UNCHANGED <<db, clock, pageVars, pages_this_session, max_pages,
                 interrupt_at, sessions, crashes, pre, segVars, apiOp, call_log, store_errors>>

\* the mutated check: one page late
BudgetExhaustedLate == max_pages > 0 /\ pages_this_session > max_pages

BudgetExhausted == max_pages > 0 /\ pages_this_session >= max_pages

\* the loop head: the page budget is used up
LoopBudget ==
  /\ pc = "loop"
  /\ BudgetExhausted
  /\ pc' = "finally"
  /\ UNCHANGED <<db, durable, clock, pageVars, pages_this_session, max_pages,
                 interrupt_at, sessions, crashes, pre, segVars, apiOp, call_log, store_errors>>

\* _get_next_url returns None
LoopEmpty ==
  /\ pc = "loop"
  /\ ~BudgetExhausted
  /\ db.url_queue = {}
  /\ pc' = "finally"
  /\ UNCHANGED <<db, durable, clock, pageVars, pages_this_session, max_pages,
                 interrupt_at, sessions, crashes, pre, segVars, apiOp, call_log, store_errors>>

\* the mutated _get_next_url: the row is read and not deleted
_get_next_urlKeep(d) == [db |-> d, url |-> FirstRow(d).url]

\* _get_next_url with the mutated query
_get_next_urlLast(d) == [db |-> DeleteRow(d, LastRow(d)), url |-> LastRow(d).url]

\* _get_next_url: SELECT ... ORDER BY id LIMIT 1, DELETE, commit
_get_next_url(d) == [db |-> DeleteRow(d, FirstRow(d)), url |-> FirstRow(d).url]

\* the url taken from the queue is already visited: continue
LoopSkip ==
  /\ pc = "loop"
  /\ ~BudgetExhausted
  /\ db.url_queue # {}
  /\ LET r == _get_next_url(db) IN
       /\ _is_url_visited(r.db, r.url)
       /\ db' = r.db
       /\ durable' = r.db
       /\ url' = r.url
  /\ UNCHANGED <<clock, pc, text, links, pending, todo, cur, ops,
                 pages_this_session, max_pages, interrupt_at, sessions,
                 crashes, pre, segVars, apiOp, call_log, store_errors>>

\* the url taken from the queue is new: pages_this_session += 1
LoopDequeue ==
  /\ pc = "loop"
  /\ ~BudgetExhausted
  /\ db.url_queue # {}
  /\ LET r == _get_next_url(db) IN
       /\ ~_is_url_visited(r.db, r.url)
       /\ db' = r.db
       /\ durable' = r.db
       /\ url' = r.url
       /\ pre' = r.db
  /\ pages_this_session' = pages_this_session + 1
  /\ pc' = "fetch"
  /\ UNCHANGED <<clock, text, links, pending, todo, cur, ops, max_pages,
                 interrupt_at, sessions, crashes, segVars, apiOp, call_log, store_errors>>

\* an entry of call_log: ok is what crawl_page's try block came to
Called(op, u, ok, session) == [op |-> op, url |-> u, ok |-> ok, session |-> session]

\* text, links = self.crawl_page(url)
Fetch(ok) ==
  /\ pc = "fetch"
  /\ text' = crawl_page(db, url, ok).text
  /\ links' = crawl_page(db, url, ok).links
  /\ pc' = "mark"
  /\ call_log' = Append(call_log, Called("crawl_page", url, ok, sessions))
  /\ UNCHANGED <<db, durable, clock, url, pending, todo, cur, ops,
                 pages_this_session, max_pages, interrupt_at, sessions,
                 crashes, pre, segVars, apiOp, store_errors>>

\* _mark_url_visited(url): INSERT OR IGNORE, commit
_mark_url_visited(d, u, now) == InsertVisited(d, u, now)

\* the mutated loop body: a page without text and links goes back to the
\* loop head at once
AfterMarkNoSleep ==
  IF text # <<>> THEN "process" ELSE IF links # <<>> THEN "enqueue" ELSE "loop"

\* where the loop body goes after a step: process_text when there is text,
\* else _add_urls_to_queue when there are links, else the sleep
AfterMark == IF text # <<>> THEN "process" ELSE IF links # <<>> THEN "enqueue" ELSE "sleep"

MarkVisited ==
  /\ pc = "mark"
  /\ db' = _mark_url_visited(db, url, clock)
  /\ durable' = db'
  /\ clock' = clock + 1
  /\ pc' = AfterMark
  /\ todo' = IF text # <<>> THEN Range(extract_words(text, TRUE)) ELSE {}
  /\ pending' = IF AfterMark = "enqueue" THEN links ELSE pending
  /\ call_log' =
       call_log \o <<Called("_mark_url_visited", url, TRUE, sessions)>>
         \o (IF text # <<>>
             THEN <<Called("process_text", url, TRUE, sessions)>> ELSE <<>>)
  /\ UNCHANGED <<url, text, links, cur, ops, pages_this_session, max_pages,
                 interrupt_at, sessions, crashes, pre, segVars, apiOp,
                 store_errors>>

\* the mutated filter: a capitalized token is counted too
CountedAnyCase(w) == Truthy(syllabify_word(word_lower(w), all_syllables_set))

\* what process_text does with token w: nothing when it is capitalized or
\* syllabify_word returned nothing
Counted(w) ==
  /\ ~IsUpper(w[1])
  /\ Truthy(syllabify_word(word_lower(w), all_syllables_set))

\* the mutated loop: a skipped token ends the loop over the tokens
ProcessSkipBreak(w) ==
  /\ pc = "process"
  /\ ops = <<>>
  /\ w \in todo
  /\ ~Counted(w)
  /\ todo' = {}
  /\ UNCHANGED <<db, durable, clock, pc, url, text, links, pending, cur, ops,
                 pages_this_session, max_pages, interrupt_at, sessions,
                 crashes, pre, segVars, apiOp, call_log, store_errors>>

\* process_text: a token that is skipped
ProcessSkip(w) ==
  /\ pc = "process"
  /\ ops = <<>>
  /\ w \in todo
  /\ ~Counted(w)
  /\ todo' = todo \ {w}
  /\ UNCHANGED <<db, durable, clock, pc, url, text, links, pending, cur, ops,
                 pages_this_session, max_pages, interrupt_at, sessions,
                 crashes, pre, segVars, apiOp, call_log, store_errors>>

\* process_text: a token that segments: INSERT OR IGNORE INTO words
ProcessWord(w) ==
  /\ pc = "process"
  /\ ops = <<>>
  /\ w \in todo
  /\ Counted(w)
  /\ todo' = todo \ {w}
  /\ cur' = word_lower(w)
  /\ db' = [InsertWord(db, word_lower(w)) EXCEPT
              !.h_segmented = @ \cup {Lower(w)},
              !.h_log = Logged(db, "words", word_lower(w), word_lower(w), url)]
  /\ ops' = Statements(word_lower(w),
                       syllabify_word(word_lower(w), all_syllables_set)[1])
  /\ UNCHANGED <<durable, clock, pc, url, text, links, pending,
                 pages_this_session, max_pages, interrupt_at, sessions,
                 crashes, pre, segVars, apiOp, call_log, store_errors>>

\* process_text: the next _update_* call for the current word
ProcessStmt ==
  /\ pc = "process"
  /\ ops # <<>>
  /\ db' = ApplyStmt(db, Head(ops), cur, url)
  /\ ops' = Tail(ops)
  /\ UNCHANGED <<durable, clock, pc, url, text, links, pending, todo, cur,
                 pages_this_session, max_pages, interrupt_at, sessions,
                 crashes, pre, segVars, apiOp, call_log, store_errors>>

\* process_text: self.conn.commit(), then `if links:`
ProcessCommit ==
  /\ pc = "process"
  /\ ops = <<>>
  /\ todo = {}
  /\ durable' = db
  /\ pc' = IF links # <<>> THEN "enqueue" ELSE "sleep"
  /\ pending' = IF links # <<>> THEN links ELSE pending
  /\ UNCHANGED <<db, clock, url, text, links, todo, cur, ops,
                 pages_this_session, max_pages, interrupt_at, sessions,
                 crashes, pre, segVars, apiOp, call_log, store_errors>>

\* time.sleep(1)
Sleep ==
  /\ pc = "sleep"
  /\ pc' = "loop"
  /\ call_log' = Append(call_log, Called("sleep", url, TRUE, sessions))
  /\ UNCHANGED <<db, durable, clock, pageVars, pages_this_session, max_pages,
                 interrupt_at, sessions, crashes, pre, segVars, apiOp,
                 store_errors>>

\* KeyboardInterrupt raised inside the try block
Interrupt ==
  /\ pc \in {"loop", "fetch", "mark", "process", "enqueue", "sleep"}
  /\ interrupt_at' = pc
  /\ pc' = "finally"
  /\ UNCHANGED <<db, durable, clock, pageVars, pages_this_session, max_pages,
                 sessions, crashes, pre, segVars, apiOp, call_log, store_errors>>

\* a statement or a commit of _get_next_url, _is_url_visited,
\* _mark_url_visited or process_text, or the commit of _add_urls_to_queue,
\* raises sqlite3.Error inside the try block: the statement changes nothing,
\* no except clause matches, the finally clause runs and the exception
\* leaves crawl_continuous
StoreError ==
  /\ pc \in {"loop", "mark", "process", "enqueue"}
  /\ pc = "enqueue" => pending = <<>>
  /\ Len(store_errors) < MaxStoreErrors
  /\ store_errors' = Append(store_errors, Raised(pc, sessions))
  /\ pc' = "finally"
  /\ UNCHANGED <<db, durable, clock, pageVars, pages_this_session, max_pages,
                 interrupt_at, sessions, crashes, pre, segVars, apiOp, call_log>>

\* finally: self.conn.commit(), the final statistics
Finally ==
  /\ pc = "finally"
  /\ durable' = db
  /\ pc' = "terminated"
  /\ UNCHANGED <<db, clock, pageVars, pages_this_session, max_pages,
                 interrupt_at, sessions, crashes, pre, segVars, apiOp, call_log, store_errors>>

\* the process dies (kill, power loss, an exception outside the try block):
\* what was not committed is rolled back
Crash ==
  /\ pc \in {"seed", "loop", "fetch", "mark", "process", "enqueue", "sleep", "finally"}
  /\ crashes < MaxCrashes
  /\ crashes' = crashes + 1
  /\ db' = durable
  /\ pc' = "crashed"
  /\ UNCHANGED <<durable, clock, pageVars, pages_this_session, max_pages,
                 interrupt_at, sessions, pre, segVars, apiOp, call_log, store_errors>>

Next ==
  \/ \E seeds \in SeedLists, mp \in 0..MaxBudget : StartSession(seeds, mp)
  \/ AddUrlInsert
  \/ AddUrlsCommit
  \/ LoopBudget
  \/ LoopEmpty
  \/ LoopSkip
  \/ LoopDequeue
  \/ \E ok \in BOOLEAN : Fetch(ok)
  \/ MarkVisited
  \/ \E w \in todo : ProcessSkip(w)
  \/ \E w \in todo : ProcessWord(w)
  \/ ProcessStmt
  \/ ProcessCommit
  \/ Sleep
  \/ Interrupt
  \/ Finally
  \/ Crash

Spec == Init /\ [][Next]_vars

\* ------------------------------------------------ the crawl on a failing store
\* the crawl when statements of the store may raise sqlite3.Error
NextFault ==
  \/ Next
  \/ AddUrlInsertError
  \/ StoreError

SpecFault == Init /\ [][NextFault]_vars

\* ------------------------------------------------- the crawl from two seeds
\* main() passes a list of several seed urls: the crawl started from two
\* pages that both have text
TwoSeeds == <<U2, U1>>

NextSeeds ==
  \/ \E mp \in 0..MaxBudget : StartSession(TwoSeeds, mp)
  \/ AddUrlInsert
  \/ AddUrlsCommit
  \/ LoopBudget
  \/ LoopEmpty
  \/ LoopSkip
  \/ LoopDequeue
  \/ \E ok \in BOOLEAN : Fetch(ok)
  \/ MarkVisited
  \/ \E w \in todo : ProcessSkip(w)
  \/ \E w \in todo : ProcessWord(w)
  \/ ProcessStmt
  \/ ProcessCommit
  \/ Sleep
  \/ Interrupt
  \/ Finally
  \/ Crash

SpecSeeds == Init /\ [][NextSeeds]_vars

\* ------------------------------------------------- syllabify_word on words
\* the letters of the tokens given to syllabify_word
SegLetters == Range(VOWELS) \cup Range(CONSONANTS) \cup UpperChars

SegWords == UNION {[1..n -> SegLetters] : n \in 1..MaxWordLen}

InitSeg ==
  /\ StoreInit
  /\ LoopInit
  /\ pc = "seg_call"
  /\ segWord \in SegWords
  /\ segResult = None
  /\ apiOp = NoApiOp

\* syllables = syllabify_word(word, all_syllables_set)
SegCall ==
  /\ pc = "seg_call"
  /\ segResult' = syllabify_word(segWord, all_syllables_set)
  /\ pc' = "seg_done"
  /\ UNCHANGED <<db, durable, clock, pageVars, pages_this_session, max_pages,
                 interrupt_at, sessions, crashes, pre, segWord, apiOp, call_log, store_errors>>

NextSeg == SegCall

SpecSeg == InitSeg /\ [][NextSeg]_vars

\* ------------------------------------------------ the store methods alone
\* calls of the store methods of ContinuousCrawler in any order
MaxApiCalls == 4

ApiUrls == {U1, U2}

ApiUrlLists == {<<U1>>, <<U2>>, <<U1, U2>>, <<U2, U2>>}

InitStore ==
  /\ StoreInit
  /\ LoopInit
  /\ pc = "api"
  /\ segWord = <<>>
  /\ segResult = None
  /\ apiOp = NoApiOp

ApiFrame ==
  UNCHANGED <<pc, pageVars, pages_this_session, max_pages, interrupt_at,
              sessions, crashes, pre, segVars, call_log, store_errors>>

ApiMarkVisited(u) ==
  /\ pc = "api"
  /\ apiOp.n < MaxApiCalls
  /\ db' = _mark_url_visited(db, u, clock)
  /\ durable' = db'
  /\ clock' = clock + 1
  /\ apiOp' = [name |-> "_mark_url_visited", arg |-> <<u>>, n |-> apiOp.n + 1]
  /\ ApiFrame

ApiAddUrls(urls) ==
  /\ pc = "api"
  /\ apiOp.n < MaxApiCalls
  /\ db' = _add_urls_to_queue(db, urls)
  /\ durable' = db'
  /\ apiOp' = [name |-> "_add_urls_to_queue", arg |-> urls, n |-> apiOp.n + 1]
  /\ UNCHANGED clock
  /\ ApiFrame

ApiGetNext ==
  /\ pc = "api"
  /\ apiOp.n < MaxApiCalls
  /\ IF db.url_queue = {}
     THEN /\ UNCHANGED <<db, durable>>
          /\ apiOp' = [name |-> "_get_next_url", arg |-> <<>>, n |-> apiOp.n + 1]
     ELSE /\ db' = _get_next_url(db).db
          /\ durable' = db'
          /\ apiOp' = [name |-> "_get_next_url", arg |-> <<_get_next_url(db).url>>,
                       n |-> apiOp.n + 1]
  /\ UNCHANGED clock
  /\ ApiFrame

NextStore ==
  \/ \E u \in ApiUrls : ApiMarkVisited(u)
  \/ \E urls \in ApiUrlLists : ApiAddUrls(urls)
  \/ ApiGetNext

SpecStore == InitStore /\ [][NextStore]_vars

\* ------------------------------------------- the crawl that nobody stops
\* the crawl without KeyboardInterrupt and without a kill: the loop ends
\* only by its own break statements
NextLive ==
  \/ \E seeds \in SeedLists, mp \in 0..MaxBudget : StartSession(seeds, mp)
  \/ AddUrlInsert
  \/ AddUrlsCommit
  \/ LoopBudget
  \/ LoopEmpty
  \/ LoopSkip
  \/ LoopDequeue
  \/ \E ok \in BOOLEAN : Fetch(ok)
  \/ MarkVisited
  \/ \E w \in todo : ProcessSkip(w)
  \/ \E w \in todo : ProcessWord(w)
  \/ ProcessStmt
  \/ ProcessCommit
  \/ Sleep
  \/ Finally

\* crawl_continuous is on the stack
Running ==
  pc \in {"seed", "loop", "fetch", "mark", "process", "enqueue", "sleep", "finally"}

\* a call of crawl_continuous that is under way keeps executing: every
\* request has a timeout and the sleep is one second
SpecLive == Init /\ [][NextLive]_vars /\ WF_vars(Running /\ NextLive)

\* ------------------------------------------------ link discovery on a page
\* how many hrefs beyond the cap of 50 the longest page has
ExtraHrefs == 4

\* the lengths of the pages: short ones, and ones around the cap
DocLens ==
  0..ExtraHrefs \cup (MaxLinksPerPage - 2)..(MaxLinksPerPage + ExtraHrefs)

\* hrefs that link discovery may have to drop or to resolve
NoiseHrefs == {M1, F1, "/b", U3, U1}

\* a page of n hrefs in document order: article pages, with href x in the
\* second and fifth place and the first article again in the seventh
Doc(n, x) ==
  [k \in 1..n |->
     IF k \in {2, 5} THEN x ELSE IF k = 7 THEN PagedUrls[1] ELSE PagedUrls[k]]

\* the store with the urls of V visited and an empty frontier
VisitedStore(V) ==
  [_init_database EXCEPT !.visited_urls = [u \in V |-> 0]]

InitLinks ==
  /\ LoopInit
  /\ clock = 1
  /\ pc = "links_call"
  /\ \E V \in {{}, {U1}, {PagedUrls[3], U3}} :
       /\ db = VisitedStore(V)
       /\ durable = VisitedStore(V)
       /\ pre = VisitedStore(V)
  /\ segWord = <<>>
  /\ segResult = None
  /\ \E n \in DocLens : \E x \in NoiseHrefs :
       apiOp = [name |-> "extract_links", arg |-> Doc(n, x), n |-> 0]

\* links = self.extract_links(soup, url) for the page at U1 or at U3, and
\* `if links:`, which hands the list to _add_urls_to_queue
LinksCall(base) ==
  /\ pc = "links_call"
  /\ url' = base
  /\ links' = extract_links(db, apiOp.arg, base)
  /\ pending' = links'
  /\ pc' = IF links' # <<>> THEN "enqueue" ELSE "sleep"
  /\ UNCHANGED <<db, durable, clock, text, todo, cur, ops,
                 pages_this_session, max_pages, interrupt_at, sessions,
                 crashes, pre, segVars, apiOp, call_log, store_errors>>

NextLinks ==
  \/ \E base \in {U1, U3} : LinksCall(base)
  \/ AddUrlInsert
  \/ AddUrlsCommit

SpecLinks == InitLinks /\ [][NextLinks]_vars

\* ================================================================== claims
Freq(t) == [k \in DOMAIN t |-> t[k].frequency]

\* what a page's batch writes: the words, the counts and the frontier
BatchView(d) ==
  [words |-> d.words, syllables |-> Freq(d.syllables),
   monographs |-> Freq(d.monographs), digraphs |-> Freq(d.digraphs),
   trigraphs |-> Freq(d.trigraphs), queue |-> QueueUrls(d)]

\* everything a page writes: its batch and its visited mark
PageView(d) == [batch |-> BatchView(d), visited |-> Visited(d)]

\* the store with every mutation of the page in flight applied to pre
AfterPage ==
  LET m == _mark_url_visited(pre, url, 0)
      t == IF text # <<>> THEN process_text(m, text, url) ELSE m
  IN IF links # <<>> THEN _add_urls_to_queue(t, links) ELSE t

\* the exhaustive search: w is a concatenation of inventory syllables
RECURSIVE Decomposable(_)
Decomposable(w) ==
  \/ w = <<>>
  \/ \E k \in 1..Len(w) :
       /\ SubSeq(w, 1, k) \in all_syllables_set
       /\ Decomposable(SubSeq(w, k + 1, Len(w)))

RECURSIVE Concat(_)
Concat(ss) == IF ss = <<>> THEN <<>> ELSE Head(ss) \o Concat(Tail(ss))

\* C1: while a page is in flight, the committed store holds either none of
\* the page's mutations (visited mark, words, counts, frontier entries) or
\* all of them, so a crash at any point leaves the page whole or absent.
C1_PageAllOrNothing ==
  pc \in {"mark", "process", "enqueue", "sleep"} =>
    PageView(durable) \in {PageView(pre), PageView(AfterPage)}

\* C2: when the run has ended on an interrupt that arrived with a page in
\* flight, the committed store holds the page's batch (words, counts,
\* frontier entries) either completely or not at all.
C2_InterruptBatchWhole ==
  (pc = "terminated" /\ interrupt_at \in {"fetch", "mark", "process", "enqueue"}) =>
    BatchView(durable) \in {BatchView(pre), BatchView(AfterPage)}

\* C3: no url is in url_queue and in visited_urls at once.
C3_FrontierVisitedDisjoint == QueueUrls(db) \cap Visited(db) = {}

\* C4: an insert of _add_urls_to_queue for a url that is already queued or
\* already visited changes neither the frontier nor the visited set.
C4_EnqueueKnownUrlNoop ==
  [][(/\ pc \in {"seed", "enqueue"}
      /\ pending # <<>>
      /\ pending' = Tail(pending)
      /\ Head(pending) \in QueueUrls(db) \cup Visited(db))
     => (db'.url_queue = db.url_queue /\ db'.visited_urls = db.visited_urls)]_vars

\* C5: a dequeue removes and returns the url inserted earliest among those
\* in the frontier, and on an empty frontier the loop ends with the store
\* untouched.
C5_DequeueFifo ==
  [][/\ (pc = "loop" /\ pc' \in {"loop", "fetch"} /\ db' # db) =>
          /\ db.h_order # <<>>
          /\ url' = Head(db.h_order)
          /\ db'.h_order = Tail(db.h_order)
          /\ QueueUrls(db') = QueueUrls(db) \ {url'}
          /\ Cardinality(db'.url_queue) = Cardinality(db.url_queue) - 1
     /\ (pc = "loop" /\ ~BudgetExhausted /\ db.url_queue = {}
           /\ pc' = "finally" /\ interrupt_at' = "none") =>
          (db' = db /\ durable' = durable /\ url' = url)]_vars

C5_Witness ==
  /\ pc = "fetch"
  /\ url = U2
  /\ U1 \in Visited(db)
  /\ db.seq = 4
  /\ QueueUrls(db) = {U3}

\* the calls of kind's upsert on key, in order
CallsOn(d, kind, key) ==
  SelectSeq(d.h_log, LAMBDA c : c.kind = kind /\ c.key = key)

LoggedKeys(d, kind) == {d.h_log[k].key : k \in {i \in 1..Len(d.h_log) : d.h_log[i].kind = kind}}

\* C6: in each n-gram table a key is present exactly when the upsert was
\* called on it, its count is the number of those calls, and last_word and
\* last_url are the arguments of the latest call.
C6_UpsertCountsCalls ==
  \A kind \in Kinds :
    /\ DOMAIN db[kind] = LoggedKeys(db, kind)
    /\ \A key \in DOMAIN db[kind] :
         LET calls == CallsOn(db, kind, key) IN
           /\ db[kind][key].frequency = Len(calls)
           /\ db[kind][key].last_word = calls[Len(calls)].word
           /\ db[kind][key].last_url = calls[Len(calls)].url

C6_Witness ==
  \E kind \in Kinds : \E key \in DOMAIN db[kind] :
    /\ db[kind][key].frequency >= 3
    /\ CallsOn(db, kind, key)[1].url # db[kind][key].last_url
    /\ CallsOn(db, kind, key)[1].word # db[kind][key].last_word

\* C7: a url once visited stays visited with the timestamp of its first
\* mark, and the first mark of a url records the time of that call.
C7_VisitedPermanent ==
  [][/\ \A u \in Visited(db) :
          u \in Visited(db') /\ db'.visited_urls[u] = db.visited_urls[u]
     /\ (apiOp'.name = "_mark_url_visited" /\ apiOp'.n # apiOp.n) =>
          /\ apiOp'.arg[1] \in Visited(db')
          /\ (apiOp'.arg[1] \notin Visited(db) =>
                db'.visited_urls[apiOp'.arg[1]] = clock)]_vars

C7_Witness ==
  /\ apiOp.name = "_mark_url_visited"
  /\ db.visited_urls[apiOp.arg[1]] < clock - 1

\* the lowercased tokens of a text that are not capitalized and have a
\* decomposition
SegmentableTokens(t) ==
  {Lower(w) : w \in {x \in Range(extract_words(t, TRUE)) :
                       ~IsUpper(x[1]) /\ Decomposable(Lower(x))}}

\* C8: the word set holds exactly the lowercased tokens that process_text
\* segmented; a word enters it only as a non-capitalized decomposable token
\* of the page in flight, which is visited; and the committed word set never
\* loses a word.
C8_WordSetIsSegmented ==
  [][/\ db'.words = db'.h_segmented
     /\ \A w \in db'.words \ db.words :
          /\ url' \in Visited(db')
          /\ w \in SegmentableTokens(text')
          /\ text' = PageText(url')
     /\ durable.words \subseteq durable'.words]_vars

C8_Witness ==
  /\ pc = "terminated"
  /\ <<"b", "a">> \in durable.words
  /\ <<"e", "b", "e">> \in durable.words
  /\ <<"a", "b", "b">> \notin durable.words

\* C9: a successful result of syllabify_word is a sequence of inventory
\* syllables whose concatenation, in order, is the lowercased token.
C9_ConcatReproducesToken ==
  (pc = "seg_done" /\ segResult # None) =>
    /\ \A k \in 1..Len(segResult[1]) : segResult[1][k] \in all_syllables_set
    /\ Concat(segResult[1]) = Lower(segWord)

C9_Witness ==
  /\ pc = "seg_done"
  /\ segResult # None
  /\ Len(segResult[1]) >= 2
  /\ \E k \in 1..Len(segWord) : IsUpper(segWord[k])

\* C10 as stated: some token that has a decomposition is rejected.
C10_FalseNegativeExists ==
  \E w \in SegWords \cup {segWord} :
    /\ Decomposable(Lower(w))
    /\ syllabify_word(w, all_syllables_set) = None

\* C10 as amended: syllabify_word fails exactly on the tokens that have no
\* decomposition into inventory syllables.
C10_ScanComplete ==
  pc = "seg_done" => (segResult = None <=> ~Decomposable(Lower(segWord)))

\* a token with two decompositions (a + bab, ab + ab) and the one returned
C10_Witness ==
  /\ pc = "seg_done"
  /\ segWord = <<"a", "b", "A", "b">>
  /\ segResult = Some(<<<<"a">>, <<"b", "a", "b">>>>)
  /\ Decomposable(<<"a", "b">>)

\* the lengths k of the slices ending at position i of w that are in the
\* inventory and start at a position some decomposition reaches
CandidateLens(w, i) ==
  {k \in 1..Min(MaxSyllableLen, i) :
     /\ SubSeq(w, i - k + 1, i) \in all_syllables_set
     /\ Decomposable(SubSeq(w, 1, i - k))}

\* C11: for every end position i of the lowercased token, dp[i] is unset
\* when no inventory slice of length 1 to 4 ends at i on a reachable start,
\* and otherwise it is dp[start] followed by the longest such slice; a token
\* that is itself an inventory entry comes back as that one syllable.
C11_LongestCandidateFirst ==
  pc = "seg_done" =>
    LET w == Lower(segWord)
        dp == DpTable(w, all_syllables_set, <<Some(<<>>)>>)
    IN /\ \A i \in 1..Len(w) :
            LET ks == CandidateLens(w, i) IN
              IF ks = {} THEN dp[i + 1] = None
              ELSE LET k == CHOOSE x \in ks : \A y \in ks : y <= x
                   IN dp[i + 1] =
                        Some(Append(dp[i - k + 1][1], SubSeq(w, i - k + 1, i)))
       /\ segResult = dp[Len(w) + 1]
       /\ (w \in all_syllables_set => segResult = Some(<<w>>))

\* a token whose last position has two candidates (as in a + bab against
\* ab + ab), decided for the longer one
C11_Witness ==
  /\ pc = "seg_done"
  /\ Cardinality(CandidateLens(Lower(segWord), Len(Lower(segWord)))) >= 2
  /\ segResult # None
  /\ Len(segResult[1][Len(segResult[1])]) = 3

\* C12: a token whose last position no decomposition reaches (in particular
\* one with no suffix of length 1 to 4 in the inventory) gives None, and a
\* result that is not None never spells a proper prefix of the token.
C12_NoPartialResult ==
  pc = "seg_done" =>
    LET w == Lower(segWord) IN
      /\ (\A k \in 1..Min(MaxSyllableLen, Len(w)) :
             SubSeq(w, Len(w) - k + 1, Len(w)) \notin all_syllables_set)
           => segResult = None
      /\ ~Decomposable(w) => segResult = None
      /\ segResult # None =>
           \A k \in 0..(Len(w) - 1) : Concat(segResult[1]) # SubSeq(w, 1, k)

\* a token that fails although a proper prefix of it segments
C12_Witness ==
  /\ pc = "seg_done"
  /\ segResult = None
  /\ \E k \in 1..(Len(segWord) - 1) :
       Truthy(syllabify_word(SubSeq(segWord, 1, k), all_syllables_set))

\* w is spelled by one of the patterns V, VC, CV, CVC, CVCC
MatchesPattern(w) ==
  LET V(c) == c \in Range(VOWELS)
      C(c) == c \in Range(CONSONANTS)
  IN \/ Len(w) = 1 /\ V(w[1])
     \/ Len(w) = 2 /\ V(w[1]) /\ C(w[2])
     \/ Len(w) = 2 /\ C(w[1]) /\ V(w[2])
     \/ Len(w) = 3 /\ C(w[1]) /\ V(w[2]) /\ C(w[3])
     \/ Len(w) = 4 /\ C(w[1]) /\ V(w[2]) /\ C(w[3]) /\ C(w[4])

\* the list has v + 2vc + cvc + cvcc entries, no entry twice, each of
\* length 1 to 4 and spelled by a pattern
InventoryShape ==
  LET v == Len(VOWELS)
      c == Len(CONSONANTS)
      g == generate_all_syllables
  IN /\ Len(g) = v + 2 * v * c + c * v * c + c * v * c * c
     /\ Cardinality(all_syllables_set) = Len(g)
     /\ \A a \in 1..Len(g) : \A b \in 1..Len(g) : g[a] = g[b] => a = b
     /\ \A w \in all_syllables_set : Len(w) \in 1..MaxSyllableLen /\ MatchesPattern(w)
     /\ all_syllables_set =
          Range(v_syllables) \cup Range(vc_syllables) \cup Range(cv_syllables)
            \cup Range(cvc_syllables) \cup Range(cvcc_syllables)

\* C13: generate_all_syllables lists exactly the strings spelled by one of
\* the five patterns, each once: its length is v + 2vc + cvc + cvcc, which
\* is also the size of the set, and any word is in the inventory exactly
\* when a pattern spells it.
C13_InventoryIsPatternUnion ==
  /\ InventoryShape
  /\ (segWord \in all_syllables_set <=> MatchesPattern(segWord))
  /\ Cardinality({k \in 1..Len(generate_all_syllables) :
                    generate_all_syllables[k] = segWord}) <= 1

\* a CVCC entry, looked up by syllabify_word
C13_Witness ==
  /\ pc = "seg_done"
  /\ Len(segWord) = 4
  /\ MatchesPattern(segWord)
  /\ segResult = Some(<<segWord>>)

\* the positions of call_log that hold a call of op
CallsOf(op) == {k \in 1..Len(call_log) : call_log[k].op = op}

\* the latest call of crawl_page
LastFetch ==
  call_log[CHOOSE k \in CallsOf("crawl_page") :
             \A j \in CallsOf("crawl_page") : j <= k]

\* the latest call is not a fetch of a url that was marked visited before
NoFetchAfterMark ==
  \A k \in 1..(Len(call_log) - 1) :
    ~ /\ call_log[Len(call_log)].op = "crawl_page"
      /\ call_log[k].op = "_mark_url_visited"
      /\ call_log[k].url = call_log[Len(call_log)].url

\* C14: while the page of a failed fetch is in flight, crawl_page has
\* returned no text and no links, the loop body goes from the visited mark
\* straight to the sleep, the words, the four tables and the frontier are as
\* they were when the url was dequeued, and the url is committed as visited
\* when the sleep is reached; the next call a session makes after a failed
\* fetch is the visited mark of its url, and a url marked visited is never
\* fetched after that.
C14_FetchFailurePageScoped ==
  /\ (pc \in {"mark", "process", "enqueue", "sleep"} /\ ~LastFetch.ok) =>
       /\ LastFetch.url = url
       /\ pc \in {"mark", "sleep"}
       /\ text = <<>>
       /\ links = <<>>
       /\ BatchView(db) = BatchView(pre)
       /\ BatchView(durable) = BatchView(pre)
       /\ pc = "sleep" => url \in Visited(durable)
  /\ \A k \in 1..(Len(call_log) - 1) :
       (/\ call_log[k].op = "crawl_page"
        /\ ~call_log[k].ok
        /\ call_log[k + 1].session = call_log[k].session) =>
         call_log[k + 1] =
           Called("_mark_url_visited", call_log[k].url, TRUE, call_log[k].session)
  /\ NoFetchAfterMark

\* the loop has gone on to the next url after a fetch that failed
C14_Witness ==
  /\ pc = "mark"
  /\ url = U3
  /\ \E k \in CallsOf("crawl_page") :
       /\ call_log[k] = Called("crawl_page", U2, FALSE, sessions)
       /\ U2 \in Visited(durable)
  /\ <<"e", "b", "e">> \notin db.words

\* the fetches of one session
FetchesIn(session) == {k \in CallsOf("crawl_page") : call_log[k].session = session}

\* C15: with max_pages > 0 a session never fetches more than max_pages
\* pages, and a loop head that finds the budget used up ends the loop: the
\* frontier, the page variables and the call history stay as they are.
C15_BudgetBoundsFetches ==
  [][/\ max_pages' > 0 => Cardinality(FetchesIn(sessions)') <= max_pages'
     /\ (pc = "loop" /\ max_pages > 0 /\ pages_this_session >= max_pages) =>
          /\ pc' \in {"finally", "crashed"}
          /\ db'.url_queue = db.url_queue
          /\ durable'.url_queue = db.url_queue
          /\ url' = url
          /\ call_log' = call_log]_vars

\* the run has ended on the budget with urls left in the frontier
C15_Witness ==
  /\ pc = "terminated"
  /\ interrupt_at = "none"
  /\ max_pages = 1
  /\ Cardinality(FetchesIn(sessions)) = 1
  /\ Cardinality(durable.url_queue) >= 2

\* C16: no url is given to process_text twice, in one session or across
\* sessions; no url is fetched twice in one session; a url is fetched only
\* while it is not in visited_urls, and never after its visited mark.
C16_AggregatedAtMostOnce ==
  /\ \A k \in 1..(Len(call_log) - 1) :
       LET a == call_log[k]
           b == call_log[Len(call_log)]
       IN a.url = b.url =>
            /\ ~(a.op = "process_text" /\ b.op = "process_text")
            /\ ~(a.op = "crawl_page" /\ b.op = "crawl_page" /\ a.session = b.session)
            /\ ~(a.op = "_mark_url_visited" /\ b.op = "crawl_page")
  /\ pc = "fetch" => url \notin Visited(db)

\* a resumed session has dequeued the seed url, which the first session had
\* aggregated, and has skipped it
C16_Witness ==
  /\ pc = "loop"
  /\ sessions = 2
  /\ url = U1
  /\ U1 \notin QueueUrls(db)
  /\ Called("process_text", U1, TRUE, 1) \in Range(call_log)
  /\ \A k \in FetchesIn(2) : call_log[k].url # U1

\* the tokens of a text that do not start with an uppercase letter
NonCapitalized(t) == {w \in Range(extract_words(t, TRUE)) : ~IsUpper(w[1])}

\* C17: a step of process_text that takes a capitalized token changes
\* neither the store nor the pending upserts; a word enters the word set
\* only as the lowercase form of a non-capitalized token longer than one
\* letter, a counter is incremented only for such a word, and when the page
\* is done its new words are lowercase forms of non-capitalized tokens.
C17_CapitalizedDiscarded ==
  [][/\ (pc = "process" /\ pc' = "process") =>
          /\ \A w \in todo \ todo' : IsUpper(w[1]) => (db' = db /\ ops' = ops)
          /\ \A x \in db'.words \ db.words :
               \E w \in todo \ todo' :
                 ~IsUpper(w[1]) /\ Len(w) > 1 /\ x = Lower(w)
          /\ Len(db'.h_log) > Len(db.h_log) =>
               db'.h_log[Len(db'.h_log)].word \in
                 {Lower(w) : w \in {v \in NonCapitalized(text) : Len(v) > 1}}
     /\ (pc = "process" /\ pc' \in {"enqueue", "sleep"}) =>
          db.words \ pre.words \subseteq {Lower(w) : w \in NonCapitalized(text)}]_vars

\* the page with Aba, ab and bA is done: ba is a word, aba is not although
\* it segments
C17_Witness ==
  /\ pc = "sleep"
  /\ url = U1
  /\ <<"A", "b", "a">> \in Range(extract_words(text, TRUE))
  /\ Truthy(syllabify_word(<<"a", "b", "a">>, all_syllables_set))
  /\ <<"a", "b", "a">> \notin db.words
  /\ <<"b", "a">> \in db.words
  /\ \A k \in 1..Len(db.h_log) : db.h_log[k].word # <<"a", "b", "a">>

\* the keys of the statements of one kind logged for word x of page u
KeysLogged(d, kind, x, u) ==
  LET es == SelectSeq(d.h_log, LAMBDA c : c.kind = kind /\ c.word = x /\ c.url = u)
  IN [k \in 1..Len(es) |-> es[k].key]

\* the overlapping substrings of length m of word x, left to right
Substrings(x, m) == [k \in 1..Max(0, Len(x) - m + 1) |-> SubSeq(x, k, k + m - 1)]

\* C18: when process_text has committed a page, the statements logged for
\* each lowercased token x of the page are, per non-capitalized token that
\* spells x and segments: one insert into words, one upsert per syllable of
\* the decomposition, and one upsert per substring of length 1, 2 and 3
\* (n, n - 1 and n - 2 of them); for a token that does not segment, or is
\* capitalized, nothing is logged and no word is added.
C18_UpsertsPerToken ==
  (pc \in {"enqueue", "sleep"} /\ text # <<>>) =>
    \A x \in {Lower(w) : w \in Range(extract_words(text, TRUE))} :
      LET r == syllabify_word(x, all_syllables_set)
          n == Cardinality({w \in NonCapitalized(text) : Lower(w) = x})
          N(kind) == Len(KeysLogged(db, kind, x, url))
      IN IF n > 0 /\ Truthy(r)
         THEN /\ x \in db.words
              /\ N("words") = n
              /\ N("syllables") = n * Len(r[1])
              /\ N("monographs") = n * Len(x)
              /\ N("digraphs") = n * Max(0, Len(x) - 1)
              /\ N("trigraphs") = n * Max(0, Len(x) - 2)
              /\ n = 1 =>
                   /\ KeysLogged(db, "words", x, url) = <<x>>
                   /\ KeysLogged(db, "syllables", x, url) = r[1]
                   /\ KeysLogged(db, "monographs", x, url) = Substrings(x, 1)
                   /\ KeysLogged(db, "digraphs", x, url) = Substrings(x, 2)
                   /\ KeysLogged(db, "trigraphs", x, url) = Substrings(x, 3)
         ELSE /\ \A kind \in Kinds \cup {"words"} : N(kind) = 0
              /\ x \notin db.words \ pre.words

\* the page with ab, abb and ebe is done: ebe has its eight upserts, abb
\* has none
C18_Witness ==
  /\ pc = "sleep"
  /\ url = U2
  /\ text # <<>>
  /\ KeysLogged(db, "syllables", <<"e", "b", "e">>, U2) = <<<<"e">>, <<"b", "e">>>>
  /\ Len(KeysLogged(db, "digraphs", <<"e", "b", "e">>, U2)) = 2
  /\ Len(KeysLogged(db, "trigraphs", <<"e", "b", "e">>, U2)) = 1
  /\ <<"a", "b", "b">> \notin db.words

\* the words and the counts of a store
WordsAndCounts(d) ==
  [words |-> d.words, syllables |-> Freq(d.syllables),
   monographs |-> Freq(d.monographs), digraphs |-> Freq(d.digraphs),
   trigraphs |-> Freq(d.trigraphs)]

\* the latest sqlite3 error was raised in this session at pc value at
FailedAt(at) ==
  /\ store_errors # <<>>
  /\ store_errors[Len(store_errors)] = Raised(at, sessions)

\* C19: when the run has ended on a store error raised inside process_text,
\* the committed words and counts are those from before the page.
C19_FailedBatchDiscarded ==
  (pc = "terminated" /\ FailedAt("process")) =>
    WordsAndCounts(durable) = WordsAndCounts(pre)

\* C20: once a statement of the store has raised in a session, the session
\* is ending or has ended.
C20_StoreErrorStops ==
  \A k \in 1..Len(store_errors) :
    store_errors[k].session = sessions =>
      pc \in {"finally", "terminated", "crashed"}

\* C21: when the run has ended on an interrupt, the interrupt was taken at
\* the loop head or in the sleep, and the url dequeued last, if any, is
\* committed as visited.
C21_StopAtPageBoundary ==
  (pc = "terminated" /\ interrupt_at # "none") =>
    /\ interrupt_at \in {"loop", "sleep"}
    /\ url # "" => url \in Visited(durable) \cup QueueUrls(durable)

\* C22: while a page whose fetch returned empty text is in flight, the
\* words, the four tables and the frontier are as they were when its url
\* was dequeued.
C22_EmptyTextEmptyBatch ==
  (pc \in {"mark", "enqueue", "sleep"} /\ text = <<>>) =>
    BatchView(db) = BatchView(pre)

\* C25: when a session fetches a page, a call of time.sleep lies between
\* this fetch and every earlier fetch of the same session.
C25_DelayBetweenFetches ==
  LET n == Len(call_log) IN
    (n > 0 /\ call_log[n].op = "crawl_page") =>
      \A k \in 1..(n - 1) :
        (call_log[k].op = "crawl_page" /\ call_log[k].session = call_log[n].session) =>
          \E j \in (k + 1)..(n - 1) :
            call_log[j].op = "sleep" /\ call_log[j].session = call_log[n].session

\* the second fetch of a session, after the seed url was dequeued a second
\* time and skipped: the call before it is the sleep of the first page
C25_Witness ==
  /\ pc = "mark"
  /\ url = U2
  /\ U1 \in Visited(db)
  /\ db.h_order = <<U3>>
  /\ db.seq = 4
  /\ Len(call_log) >= 2
  /\ call_log[Len(call_log)] = Called("crawl_page", U2, TRUE, sessions)
  /\ call_log[Len(call_log) - 1] = Called("sleep", U1, TRUE, sessions)

\* every key of table t is in table u with a count that is at least 1 and
\* not smaller
Grown(t, u) ==
  \A key \in DOMAIN t :
    /\ key \in DOMAIN u
    /\ t[key].frequency >= 1
    /\ u[key].frequency >= t[key].frequency

\* C24: a step of the crawl keeps every key of every n-gram table, with a
\* count of at least 1 that does not decrease, in the committed store and,
\* unless the step is the rollback of a killed process, in the store the
\* connection sees; an upsert changes the count of its key only, by one.
C24_TablesOnlyGrow ==
  [][\A kind \in Kinds :
       /\ Grown(durable[kind], durable'[kind])
       /\ pc' # "crashed" => Grown(db[kind], db'[kind])
       /\ \A key \in DOMAIN db'[kind] : db'[kind][key].frequency >= 1
       /\ (pc = "process" /\ pc' = "process" /\ db'[kind] # db[kind]) =>
            \E key \in DOMAIN db'[kind] :
              /\ \A other \in DOMAIN db'[kind] \ {key} :
                   other \in DOMAIN db[kind] /\ db'[kind][other] = db[kind][other]
              /\ db'[kind][key].frequency =
                   IF key \in DOMAIN db[kind] THEN db[kind][key].frequency + 1 ELSE 1]_vars

\* a key counted by two pages, the first count committed before the second
C24_Witness ==
  \E kind \in Kinds : \E key \in DOMAIN durable[kind] :
    /\ durable[kind][key].frequency = 2
    /\ db[kind][key].frequency >= 3
    /\ pc = "process"

\* key is one of the n-grams that process_text counts for word
NgramOf(kind, key, word) ==
  CASE kind = "syllables" ->
         LET r == syllabify_word(word, all_syllables_set)
         IN r # None /\ key \in Range(r[1])
    [] kind = "monographs" -> key \in Range(Substrings(word, 1))
    [] kind = "digraphs" -> key \in Range(Substrings(word, 2))
    [] OTHER -> key \in Range(Substrings(word, 3))

\* C27: every commit leaves a store in which each n-gram row names a
\* visited url and a word of the word set, and its key is a syllable of that
\* word (syllables) or a substring of it of the table's length (the other
\* tables).
C27_EntriesConsistent ==
  [][durable' # durable =>
       \A kind \in Kinds : \A key \in DOMAIN durable'[kind] :
         LET row == durable'[kind][key] IN
           /\ row.last_url \in Visited(durable')
           /\ row.last_word \in durable'.words
           /\ NgramOf(kind, key, row.last_word)]_vars

\* an uninterrupted run has ended with rows written by two pages
C27_Witness ==
  /\ pc = "terminated"
  /\ interrupt_at = "none"
  /\ crashes = 0
  /\ \E key \in DOMAIN durable.trigraphs : durable.trigraphs[key].last_url = U2
  /\ \E key \in DOMAIN durable.syllables :
       /\ durable.syllables[key].last_url = U1
       /\ durable.syllables[key].frequency >= 1

\* SELECT SUM(frequency) FROM a table
RECURSIVE SumFrequency(_)
SumFrequency(t) ==
  IF DOMAIN t = {} THEN 0
  ELSE LET key == CHOOSE k \in DOMAIN t : TRUE
       IN t[key].frequency + SumFrequency([k \in DOMAIN t \ {key} |-> t[k]])

\* the inserts into words issued so far, one per token counted
WordEvents(d) ==
  Cardinality({k \in 1..Len(d.h_log) : d.h_log[k].kind = "words"})

\* C28: when process_text has committed a page, the sum of the monograph
\* counts minus the sum of the digraph counts, and the sum of the digraph
\* counts minus the sum of the trigraph counts, both equal the number of
\* tokens counted so far.
C28_TotalsRelated ==
  (pc \in {"enqueue", "sleep"} /\ text # <<>>) =>
    /\ SumFrequency(db.monographs) - SumFrequency(db.digraphs) = WordEvents(db)
    /\ SumFrequency(db.digraphs) - SumFrequency(db.trigraphs) = WordEvents(db)

\* C30: when process_text has committed a page, the words and the counts of
\* every table, and the last_url of every row, are those that process_text
\* gives with the tokens taken in one fixed order, whatever the order in
\* which the tokens were taken.
C30_OrderIndependent ==
  [][(pc = "process" /\ pc' \in {"enqueue", "sleep"}) =>
       LET fixed == process_text(_mark_url_visited(pre, url, 0), text, url) IN
         /\ WordsAndCounts(db') = WordsAndCounts(fixed)
         /\ \A kind \in Kinds :
              \A key \in DOMAIN db'[kind] :
                db'[kind][key].last_url = fixed[kind][key].last_url]_vars

\* a page done in an order that leaves another last_word than the fixed
\* order does
C30_Witness ==
  /\ pc = "sleep"
  /\ text # <<>>
  /\ LET fixed == process_text(_mark_url_visited(pre, url, 0), text, url) IN
       /\ WordsAndCounts(db) = WordsAndCounts(fixed)
       /\ \E key \in DOMAIN db.monographs :
            /\ fixed.monographs[key].last_word # db.monographs[key].last_word
            /\ fixed.monographs[key].frequency >= 2

\* how many letters of w are vowels
VowelCount(w) == Cardinality({k \in 1..Len(w) : w[k] \in Range(VOWELS)})

\* C29: a result of syllabify_word has as many syllables as the lowercased
\* token has vowels, each syllable holding exactly one vowel; a token
\* without a vowel gives None.
C29_OneVowelPerSyllable ==
  pc = "seg_done" =>
    /\ segResult # None =>
         /\ Len(segResult[1]) = VowelCount(Lower(segWord))
         /\ \A k \in 1..Len(segResult[1]) : VowelCount(segResult[1][k]) = 1
    /\ VowelCount(Lower(segWord)) = 0 => segResult = None
    /\ (Len(segWord) <= MaxSyllableLen /\ segWord \in all_syllables_set) =>
         VowelCount(segWord) = 1

\* a token of three syllables and three vowels, one of them written in
\* uppercase
C29_Witness ==
  /\ pc = "seg_done"
  /\ segResult # None
  /\ Len(segResult[1]) = 3
  /\ VowelCount(segWord) = 2
  /\ VowelCount(Lower(segWord)) = 3

\* the places of the hrefs of the page that pass the three tests of link
\* discovery, a visited url being one visited before the page
KeptPlaces ==
  {k \in 1..Len(apiOp.arg) :
     LET a == urljoin(url, apiOp.arg[k]) IN
       /\ Scheme(a) \in {"http", "https"}
       /\ a \notin Visited(pre)
       /\ (Netloc(a) = Netloc(url) \/ is_turkish_domain(a))}

\* the j-th smallest member of a set of places
NthPlace(P, j) == CHOOSE k \in P : Cardinality({i \in P : i <= k}) = j

\* the first place of u in list
FirstPlace(list, u) ==
  CHOOSE k \in 1..Len(list) : list[k] = u /\ \A i \in 1..(k - 1) : list[i] # u

\* C23: the list extract_links returns holds, in document order, the first
\* 50 hrefs (fewer when the page has fewer) that resolve to an http or https
\* url not visited and either on the page's host or Turkish by the
\* heuristic (checked when the call has returned); enqueuing it adds at most
\* 50 rows, exactly its urls, in the order of their first places in the list.
C23_LinksFilteredAndCapped ==
  /\ (pc \in {"enqueue", "sleep"} /\ pending = links) =>
       /\ Len(links) = Min(MaxLinksPerPage, Cardinality(KeptPlaces))
       /\ \A j \in 1..Len(links) :
            links[j] = urljoin(url, apiOp.arg[NthPlace(KeptPlaces, j)])
  /\ pc = "sleep" =>
       /\ Cardinality(db.url_queue) - Cardinality(pre.url_queue) <= MaxLinksPerPage
       /\ QueueUrls(db) = Range(links)
       /\ Len(db.h_order) = Cardinality(Range(links))
       /\ \A i \in 1..Len(db.h_order) : \A j \in (i + 1)..Len(db.h_order) :
            FirstPlace(links, db.h_order[i]) < FirstPlace(links, db.h_order[j])

\* a page with more than 50 links that pass: the list is cut at 50, a
\* passing link of the page is not enqueued and a mailto link was dropped
C23_Witness ==
  /\ pc = "sleep"
  /\ Len(links) = MaxLinksPerPage
  /\ Cardinality(KeptPlaces) > MaxLinksPerPage
  /\ M1 \in Range(apiOp.arg)
  /\ \E k \in KeptPlaces : urljoin(url, apiOp.arg[k]) \notin QueueUrls(db)
  /\ Cardinality(db.url_queue) < MaxLinksPerPage

\* one pass of the loop body that does not break: the oldest row leaves the
\* frontier, and its url is either new and goes to crawl_page, or visited
\* and nothing else changes
IterationStep ==
  (pc = "loop" /\ pc' # "finally") =>
    /\ db.url_queue # {}
    /\ db'.url_queue = db.url_queue \ {FirstRow(db)}
    /\ url' = FirstRow(db).url
    /\ \/ /\ url' \notin Visited(db)
          /\ pc' = "fetch"
       \/ /\ url' \in Visited(db)
          /\ pc' = "loop"
          /\ Visited(db') = Visited(db)
          /\ call_log' = call_log

\* the url taken for a fetch is fetched: the next step is the crawl_page call
FetchStep ==
  pc = "fetch" =>
    /\ pc' = "mark"
    /\ call_log' = Append(call_log, Called("crawl_page", url, TRUE, sessions))
       \/ call_log' = Append(call_log, Called("crawl_page", url, FALSE, sessions))
    /\ url \notin Visited(db)

\* C26: on the finite web, whatever the page budget (0 is no budget), a
\* crawl that nobody stops ends: every pass of the loop body removes the
\* oldest url of the frontier and either fetches it, when it is not yet
\* visited, or only drops it, when it is; and every call of
\* crawl_continuous under way reaches its end.
C26_CrawlTerminates ==
  /\ [][IterationStep /\ FetchStep]_vars
  /\ Running ~> (pc = "terminated")

\* a crawl without budget has ended with every page of the web visited, the
\* frontier empty, and more rows taken from the frontier than pages fetched:
\* the self link of the first page was enqueued and dropped
C26_Witness ==
  /\ pc = "terminated"
  /\ max_pages = 0
  /\ sessions = 1
  /\ db.url_queue = {}
  /\ {U1, U2, U3} \subseteq Visited(db)
  /\ Cardinality(CallsOf("crawl_page")) < db.seq

====
